---------------------------- MODULE Spec2Model ----------------------------
(***************************************************************************)
(* Geo intersection filter / join contexts and the measure output binder   *)
(* of the query core (geo_intersects.cu, measure_transform.cu).            *)
(*                                                                         *)
(* Buffers are caller-owned device arrays; they are modelled as functions  *)
(* over 0-based positions and persist from one entry-point call to the     *)
(* next.  Every entry point is one action; the pure part of each handler   *)
(* is an operator over a memory record                                     *)
(*   [indexVector, recordIDVectors, outputPredicate, DimValues, DimNulls]. *)
(***************************************************************************)
EXTENDS Integers, Sequences, FiniteSets, TLC

(***************************************************************************)
(* Bounds of the model.                                                    *)
(***************************************************************************)
MaxRows == 3          \* physical length of the index vector and its peers
MaxCalls == 1         \* entry-point calls explored by Spec
MaxReuseCalls == 3    \* entry-point calls explored by SpecReuse
MaxSchedItems == 10   \* (row, point) work items explored by SpecSched
MaxMeasureCalls == 2  \* transformMeasureOutput calls explored by SpecMeasure

(***************************************************************************)
(* Program constants.                                                      *)
(***************************************************************************)
WordBits == 32            \* outputPredicate is an array of uint32_t
MaxForeignTables == 8     \* last case label of the switch in run

Positions == 0 .. (MaxRows - 1)

(***************************************************************************)
(* Fixed-width helpers.  A uint32_t word of the predicate bitset is the    *)
(* set of the positions 0..31 of its set bits.                             *)
(***************************************************************************)
ZeroWord == {}

BitAt(w, b) == IF b \in w THEN 1 ELSE 0

\* w ^ (1 << b) on a 32-bit word
XorBit(w, b) == IF b \in w THEN w \ { b } ELSE w \cup { b }

\* position of the lowest set bit of a word, -1 when the word is zero
FirstSetBit(w) ==
    IF w = ZeroWord THEN -1
    ELSE CHOOSE b \in w : \A c \in w : b <= c

ToInt8(v) == LET m == v % 256 IN IF m > 127 THEN m - 256 ELSE m

ToUint8(v) == v % 256

(***************************************************************************)
(* Input data: shape batches and point columns.                            *)
(***************************************************************************)
Pt(lat, long) == [Lat |-> lat, Long |-> long]

\* one square [0,14] x [0,8]
SquareBatch ==
    [ Points         |-> << Pt(0, 0), Pt(0, 8), Pt(14, 8), Pt(14, 0), Pt(0, 0) >>,
      ShapeIndexs    |-> << 0, 0, 0, 0, 0 >>,
      TotalNumPoints |-> 5,
      TotalWords     |-> 1 ]

\* two squares: shape 0 is [0,8] x [0,8], shape 1 is [6,14] x [0,8]
TwoSquareBatch ==
    [ Points         |-> << Pt(0, 0), Pt(0, 8), Pt(8, 8), Pt(8, 0), Pt(0, 0),
                            Pt(6, 0), Pt(6, 8), Pt(14, 8), Pt(14, 0), Pt(6, 0) >>,
      ShapeIndexs    |-> << 0, 0, 0, 0, 0, 1, 1, 1, 1, 1 >>,
      TotalNumPoints |-> 10,
      TotalWords     |-> 1 ]

ShapeBatches == { SquareBatch, TwoSquareBatch }

\* value and validity of the geo point stored at a row of the fact column
ColumnPoint(row) ==
    CASE row % 4 = 0 -> [Val |-> Pt(2, 4),  Valid |-> TRUE]
      [] row % 4 = 1 -> [Val |-> Pt(-5, 4), Valid |-> TRUE]
      [] row % 4 = 2 -> [Val |-> Pt(10, 4), Valid |-> TRUE]
      [] OTHER       -> [Val |-> Pt(7, 4),  Valid |-> TRUE]

\* a foreign (dimension table) column: one populated batch, no default value
ForeignVP ==
    [ NumBatches  |-> 1,
      BaseBatchID |-> 0,
      HasDefault  |-> FALSE,
      Default     |-> Pt(0, 0) ]

ForeignRecordID(pos) == [BatchID |-> pos % 2, Index |-> pos \div 2]

\* RecordIDJoinIterator: the point a RecordID resolves to
ForeignPoint(pos) ==
    LET rid == ForeignRecordID(pos) IN
    IF rid.BatchID - ForeignVP.BaseBatchID < ForeignVP.NumBatches
    THEN ColumnPoint(rid.Index + 2)
    ELSE [Val |-> ForeignVP.Default, Valid |-> ForeignVP.HasDefault]

InputTypes == { "VectorPartyInput", "ForeignColumnInput", "ScratchSpaceInput" }
GeoDataTypes == { "GeoPoint", "Uint32" }
BasePtrs == { "null", "column" }

\* the InputVector descriptors a caller can pass
InputVectors ==
    { v \in [Type : InputTypes, DataType : GeoDataTypes, BasePtr : BasePtrs] :
        v.Type = "VectorPartyInput" \/ v.BasePtr = "column" }

\* the point the bound input iterator yields at a position of the index vector
InputPoint(input, indexVector, pos) ==
    IF input.Type = "VectorPartyInput"
    THEN ColumnPoint(indexVector[pos])
    ELSE ForeignPoint(pos)

(***************************************************************************)
(* Geo intersection pass.                                                  *)
(***************************************************************************)
\* ray-casting edge test of one polygon edge against a test point
EdgeCrosses(p1, p2, tp) ==
    /\ (p1.Long > tp.Long) # (p2.Long > tp.Long)
    /\ IF p2.Long > p1.Long
       THEN (tp.Lat - p1.Lat) * (p2.Long - p1.Long)
              < (p2.Lat - p1.Lat) * (tp.Long - p1.Long)
       ELSE (tp.Lat - p1.Lat) * (p2.Long - p1.Long)
              > (p2.Lat - p1.Lat) * (tp.Long - p1.Long)

\* does work item (pos, pointIndex) toggle its predicate bit
ItemToggles(geoShapes, point, pointIndex) ==
    /\ point.Valid
    /\ pointIndex < geoShapes.TotalNumPoints - 1
    /\ geoShapes.ShapeIndexs[pointIndex + 1] = geoShapes.ShapeIndexs[pointIndex + 2]
    /\ EdgeCrosses(geoShapes.Points[pointIndex + 1],
                   geoShapes.Points[pointIndex + 2], point.Val)

\* dereference of the batch intersect iterator at flat element k
GeoBatchIntersectDeref(geoShapes, input, indexVector, outputPredicate, k) ==
    LET pos        == k \div geoShapes.TotalNumPoints
        pointIndex == k % geoShapes.TotalNumPoints
        shapeIndex == geoShapes.ShapeIndexs[pointIndex + 1]
        word       == pos * geoShapes.TotalWords + (shapeIndex \div WordBits)
    IN IF ItemToggles(geoShapes, InputPoint(input, indexVector, pos), pointIndex)
       THEN [outputPredicate EXCEPT
               ![word] = XorBit(@, shapeIndex % WordBits)]
       ELSE outputPredicate

IterLength(geoShapes, indexVectorLength) ==
    indexVectorLength * geoShapes.TotalNumPoints

RECURSIVE ForEach(_, _, _, _, _, _)
\* thrust::for_each over [k, iterLength) in host order
ForEach(geoShapes, input, indexVector, outputPredicate, k, iterLength) ==
    IF k >= iterLength THEN outputPredicate
    ELSE ForEach(geoShapes, input, indexVector,
                 GeoBatchIntersectDeref(geoShapes, input, indexVector,
                                        outputPredicate, k),
                 k + 1, iterLength)

calculateBatchIntersection(geoShapes, input, indexVector, indexVectorLength, outputPredicate) ==
    ForEach(geoShapes, input, indexVector, outputPredicate, 0,
            IterLength(geoShapes, indexVectorLength))

\* GeoPredicateIterator is declared outside this source.  What is fixed here
\* and in the specification is the sign of the value it yields for a row:
\* negative when no bit of the row is set (read as "val < 0" by
\* GeoRemoveFilter and as "val >= 0" by is_non_negative).  The magnitude it
\* yields for a contained row is not fixed, so it is a property of the build,
\* chosen once and never changed:
\*   "shape_index"  the index of the first shape whose bit is set, as the
\*                  join path names the zipped value (zippedShapeIndexIter)
\*   "boolean"      the constant 1
VARIABLE predicateYield

PredicateYields == { "shape_index", "boolean" }

\* some bit of the row's words is set: the row is inside at least one shape
IsContained(outputPredicate, totalWords, pos) ==
    \E i \in 0 .. (totalWords - 1) :
       outputPredicate[pos * totalWords + i] # ZeroWord

\* index of the first shape whose bit is set in the row's words
FirstShapeIndex(outputPredicate, totalWords, pos) ==
    LET hits == { i \in 0 .. (totalWords - 1) :
                    outputPredicate[pos * totalWords + i] # ZeroWord }
        i == CHOOSE h \in hits : \A g \in hits : h <= g
    IN i * WordBits + FirstSetBit(outputPredicate[pos * totalWords + i])

\* the value GeoPredicateIterator yields at a row
GeoPredicateValue(outputPredicate, totalWords, pos) ==
    IF ~IsContained(outputPredicate, totalWords, pos) THEN -1
    ELSE IF predicateYield = "shape_index"
         THEN ToInt8(FirstShapeIndex(outputPredicate, totalWords, pos))
         ELSE 1

(***************************************************************************)
(* Filter path: GeoRemoveFilter, executeRemoveIf, GeoIntersectionContext.  *)
(***************************************************************************)
\* faulty variant: the sign test takes shape index 0 for "outside"
GeoRemoveFilter_ZeroIsOutside(outputPredicate, totalWords, inOrOut, pos) ==
    inOrOut = (GeoPredicateValue(outputPredicate, totalWords, pos) <= 0)

\* GeoRemoveFilter::operator(): TRUE when the row at pos is to be removed;
\* in C++ the relational < binds tighter than ==
GeoRemoveFilter(outputPredicate, totalWords, inOrOut, pos) ==
    inOrOut = (GeoPredicateValue(outputPredicate, totalWords, pos) < 0)

\* IndexZipIteratorMaker<N>: the vectors zipped behind the position counter
ZippedForeign(recordIDVectors, numForeignTables) ==
    { k \in DOMAIN recordIDVectors : k <= numForeignTables }

RECURSIVE RemoveIfLoop(_, _, _, _, _, _, _, _)
\* thrust::remove_if on the zip iterator: walk first over [0, last), copy
\* every tuple that is not removed to result
RemoveIfLoop(mem, totalWords, inOrOut, numForeignTables, first, result, last, pre) ==
    IF first >= last
    THEN [mem |-> mem, count |-> result]
    ELSE IF GeoRemoveFilter(pre.outputPredicate, totalWords, inOrOut, first)
         THEN RemoveIfLoop(mem, totalWords, inOrOut, numForeignTables,
                           first + 1, result, last, pre)
         ELSE LET iv == mem.indexVector
                  rv == mem.recordIDVectors
                  zipped == ZippedForeign(rv, numForeignTables)
              IN RemoveIfLoop(
                   [mem EXCEPT
                      !.indexVector = [iv EXCEPT ![result] = iv[first]],
                      !.recordIDVectors =
                         [k \in DOMAIN rv |->
                            IF k \in zipped
                            THEN [rv[k] EXCEPT ![result] = rv[k][first]]
                            ELSE rv[k]]],
                   totalWords, inOrOut, numForeignTables,
                   first + 1, result + 1, last, pre)

executeRemoveIf(mem, geoShapes, indexVectorLength, numForeignTables, inOrOut) ==
    RemoveIfLoop(mem, geoShapes.TotalWords, inOrOut, numForeignTables,
                 0, 0, indexVectorLength, mem)

\* the geo pass of both contexts, writing the scratch bitset
GeoPass(mem, geoShapes, input, indexVectorLength) ==
    [mem EXCEPT !.outputPredicate =
       calculateBatchIntersection(geoShapes, input, mem.indexVector,
                                  indexVectorLength, @)]

\* faulty variant: the default label returns like a case instead of throwing
ArityCase_NoDefault(numForeignTables) ==
    numForeignTables >= 0

\* does the switch on numForeignTables reach a case label
ArityCase(numForeignTables) ==
    numForeignTables \in 0 .. MaxForeignTables

\* faulty variant: case 8 instantiates the maker of case 7
MakerArity_CaseSlip(numForeignTables) ==
    IF numForeignTables = MaxForeignTables
    THEN numForeignTables - 1
    ELSE numForeignTables

\* the template argument of IndexZipIteratorMaker under each case label
MakerArity(numForeignTables) ==
    numForeignTables

\* faulty variant: the arity is checked only after a compaction over the first
\* 8 foreign vectors
RemovePass_LateArityCheck(afterGeo, geoShapes, indexVectorLength, numForeignTables, inOrOut) ==
    LET r == executeRemoveIf(afterGeo, geoShapes, indexVectorLength,
                             IF numForeignTables > MaxForeignTables
                             THEN MaxForeignTables ELSE numForeignTables,
                             inOrOut)
    IN IF ArityCase(numForeignTables)
       THEN [threw |-> FALSE, what |-> "", res |-> r.count,
             trace |-> << "for_each", "remove_if" >>, mem |-> r.mem]
       ELSE [threw |-> TRUE, what |-> "only support up to 8 foreign tables",
             res |-> 0, trace |-> << "for_each", "remove_if" >>, mem |-> r.mem]

\* the switch of GeoIntersectionContext::run, entered after the geo pass
RemovePass(afterGeo, geoShapes, indexVectorLength, numForeignTables, inOrOut) ==
    IF ArityCase(numForeignTables)
    THEN LET r == executeRemoveIf(afterGeo, geoShapes, indexVectorLength,
                                  MakerArity(numForeignTables), inOrOut)
         IN [threw |-> FALSE, what |-> "", res |-> r.count,
             trace |-> << "for_each", "remove_if" >>, mem |-> r.mem]
    ELSE [threw |-> TRUE, what |-> "only support up to 8 foreign tables",
          res |-> 0, trace |-> << "for_each" >>, mem |-> afterGeo]

\* GeoIntersectionContext::run
FilterRun(mem, geoShapes, input, indexVectorLength, numForeignTables, inOrOut) ==
    RemovePass(GeoPass(mem, geoShapes, input, indexVectorLength),
               geoShapes, indexVectorLength, numForeignTables, inOrOut)

(***************************************************************************)
(* Join path: GeoIntersectionJoinContext.                                  *)
(***************************************************************************)
is_non_negative(val) == val >= 0

\* the transform_if of GeoIntersectionJoinContext::run, entered after the geo
\* pass: the zipped tuple (predicate value, constant 1) is written through
\* the dimension output iterator (DimValues, DimNulls) at every row whose
\* stencil is non-negative
ProjectPass(afterGeo, geoShapes, indexVectorLength) ==
    LET val(pos) == GeoPredicateValue(afterGeo.outputPredicate,
                                      geoShapes.TotalWords, pos)
        hit(pos) == pos < indexVectorLength /\ is_non_negative(val(pos))
    IN [threw |-> FALSE, what |-> "", res |-> 0,
        trace |-> << "for_each", "transform_if" >>,
        mem |-> [afterGeo EXCEPT
                   !.DimValues = [pos \in DOMAIN @ |->
                                    IF hit(pos) THEN ToUint8(val(pos)) ELSE @[pos]],
                   !.DimNulls  = [pos \in DOMAIN @ |->
                                    IF hit(pos) THEN 1 ELSE @[pos]]]]

\* GeoIntersectionJoinContext::run
JoinRun(mem, geoShapes, input, indexVectorLength) ==
    ProjectPass(GeoPass(mem, geoShapes, input, indexVectorLength),
                geoShapes, indexVectorLength)

(***************************************************************************)
(* GeoInputVectorBinder::bind.                                             *)
(***************************************************************************)
ContextRun(kind, mem, geoShapes, input, indexVectorLength, numForeignTables, inOrOut) ==
    IF kind = "filter"
    THEN FilterRun(mem, geoShapes, input, indexVectorLength, numForeignTables,
                   inOrOut)
    ELSE JoinRun(mem, geoShapes, input, indexVectorLength)

Throw(what, trace, mem) ==
    [threw |-> TRUE, what |-> what, res |-> 0, trace |-> trace, mem |-> mem]

\* faulty variant: the empty-column test is gone
IsEmptyColumn_Dropped(input) == FALSE

\* points.BasePtr == nullptr
IsEmptyColumn(input) == input.BasePtr = "null"

bind(kind, mem, geoShapes, input, indexVectorLength, numForeignTables, inOrOut) ==
    IF input.Type = "VectorPartyInput"
    THEN IF input.DataType # "GeoPoint"
         THEN Throw("only geo point column are allowed in geo_intersects",
                    << >>, mem)
         ELSE IF IsEmptyColumn(input)
              THEN [threw |-> FALSE, what |-> "", res |-> 0, trace |-> << >>,
                    mem |-> mem]
              ELSE ContextRun(kind, mem, geoShapes, input, indexVectorLength,
                              numForeignTables, inOrOut)
    ELSE IF input.Type = "ForeignColumnInput"
         THEN IF input.DataType # "GeoPoint"
              THEN Throw("only geo point column are allowed in geo_intersects",
                         << >>, mem)
              ELSE LET r == ContextRun(kind, mem, geoShapes, input,
                                       indexVectorLength, numForeignTables,
                                       inOrOut)
                   IN IF r.threw
                      THEN [r EXCEPT !.trace =
                              << "prepareForeignTableIterators" >> \o @]
                      ELSE [r EXCEPT !.trace =
                              << "prepareForeignTableIterators" >> \o @
                                 \o << "release" >>]
         \* "Unsupported data type " + to_string(__LINE__) + "for geo ...":
         \* __LINE__ is line 276 of the source, and no blank follows it
         ELSE Throw("Unsupported data type 276for geo intersection contexts",
                    << >>, mem)

(***************************************************************************)
(* Entry points: the result envelope.                                      *)
(***************************************************************************)
\* try { res = bind(); CheckCUDAError(); return } catch { pStrErr = what }
Envelope(b, cudaError) ==
    IF b.threw
    THEN [res |-> 0, pStrErr |-> b.what]
    ELSE IF cudaError
         THEN [res |-> b.res, pStrErr |-> "CUDA error"]
         ELSE [res |-> b.res, pStrErr |-> "nullptr"]

(***************************************************************************)
(* State.                                                                  *)
(***************************************************************************)
VARIABLES
    indexVector,      \* uint32_t *indexVector
    recordIDVectors,  \* RecordID **recordIDVectors, one vector per foreign table
    outputPredicate,  \* uint32_t *outputPredicate, the caller's scratch bitset
    dimOut,           \* DimensionOutputVector: DimValues, DimNulls
    resHandle,        \* CGoCallResHandle returned by the last entry point
    last,             \* the last call: arguments, buffers before it, outcome
    repeated,         \* the last call repeated the arguments of the one before
    calls,            \* entry-point calls made so far
    pc,               \* where a call stepped pass by pass stands
    pending,          \* work items of the geo pass not yet evaluated
    measureOut,       \* MeasureOutputVector.Values, the measure output buffer
    measureLast       \* the last transformMeasureOutput call and its outcome

schedVars == << pc, pending >>

measureVars == << measureOut, measureLast >>

vars == << indexVector, recordIDVectors, outputPredicate, dimOut, resHandle,
           last, repeated, calls, pc, pending, measureOut, measureLast,
           predicateYield >>

\* the caller-owned buffers as one memory record
Mem ==
    [ indexVector     |-> indexVector,
      recordIDVectors |-> recordIDVectors,
      outputPredicate |-> outputPredicate,
      DimValues       |-> dimOut.DimValues,
      DimNulls        |-> dimOut.DimNulls ]

NoCall ==
    [ kind |-> "none", geoShapes |-> SquareBatch,
      points |-> [Type |-> "VectorPartyInput", DataType |-> "GeoPoint",
                  BasePtr |-> "null"],
      indexVectorLength |-> 0, numForeignTables |-> 0, inOrOut |-> TRUE,
      pre |-> << >>, threw |-> FALSE, what |-> "", res |-> 0,
      trace |-> << >>, cudaThrew |-> FALSE ]

NoMeasureCall ==
    [ NInput |-> 0, DataType |-> "none", rows |-> 0, pre |-> << >>,
      threw |-> FALSE, what |-> "", res |-> 0, trace |-> << >> ]

\* buffers as the caller hands them over: an identity index vector, RecordID
\* vectors naming their own table and row, a zeroed scratch bitset and a
\* zeroed dimension output
InitFor(numVectors) ==
    /\ indexVector = [pos \in Positions |-> pos]
    /\ recordIDVectors =
         [k \in 1 .. numVectors |->
            [pos \in Positions |-> [BatchID |-> k, Index |-> pos]]]
    /\ outputPredicate = [w \in Positions |-> ZeroWord]
    /\ dimOut = [DimValues |-> [pos \in Positions |-> 0],
                 DimNulls  |-> [pos \in Positions |-> 0]]
    /\ resHandle = [res |-> 0, pStrErr |-> "nullptr"]
    /\ last = NoCall
    /\ repeated = FALSE
    /\ calls = 0
    /\ pc = "idle"
    /\ pending = {}
    /\ measureOut = [pos \in Positions |-> "unwritten"]
    /\ measureLast = NoMeasureCall
    /\ predicateYield \in PredicateYields

Init == \E numVectors \in 0 .. (MaxForeignTables + 1) : InitFor(numVectors)

\* one entry-point call, from CGoCallResHandle resHandle = {0, nullptr} to
\* return resHandle
EntryPoint(kind, geoShapes, points, indexVectorLength, numForeignTables, inOrOut, cudaError) ==
    \E b \in { bind(kind, Mem, geoShapes, points, indexVectorLength,
                    numForeignTables, inOrOut) } :
    LET call == [ kind |-> kind, geoShapes |-> geoShapes, points |-> points,
                  indexVectorLength |-> indexVectorLength,
                  numForeignTables |-> numForeignTables, inOrOut |-> inOrOut ]
        same(f) == last[f] = call[f]
    IN /\ indexVector' = b.mem.indexVector
       /\ recordIDVectors' = b.mem.recordIDVectors
       /\ outputPredicate' = b.mem.outputPredicate
       /\ dimOut' = [DimValues |-> b.mem.DimValues, DimNulls |-> b.mem.DimNulls]
       /\ resHandle' = Envelope(b, cudaError)
       /\ last' = [ kind |-> kind, geoShapes |-> geoShapes, points |-> points,
                    indexVectorLength |-> indexVectorLength,
                    numForeignTables |-> numForeignTables, inOrOut |-> inOrOut,
                    pre |-> Mem, threw |-> b.threw, what |-> b.what,
                    res |-> b.res, trace |-> b.trace,
                    cudaThrew |-> (~b.threw /\ cudaError) ]
       /\ repeated' = \A f \in DOMAIN call : same(f)
       /\ calls' = calls + 1
       /\ UNCHANGED << schedVars, measureVars, predicateYield >>

GeoBatchIntersects(geoShapes, points, indexVectorLength, numForeignTables, inOrOut, cudaError) ==
    EntryPoint("filter", geoShapes, points, indexVectorLength,
               numForeignTables, inOrOut, cudaError)

GeoBatchIntersectsJoin(geoShapes, points, indexVectorLength, cudaError) ==
    EntryPoint("join", geoShapes, points, indexVectorLength, 0, TRUE, cudaError)

CallFilter ==
    /\ calls < MaxCalls
    /\ \E geoShapes \in ShapeBatches, points \in InputVectors,
          indexVectorLength \in 0 .. MaxRows, inOrOut \in BOOLEAN,
          cudaError \in BOOLEAN :
          GeoBatchIntersects(geoShapes, points, indexVectorLength,
                             Len(recordIDVectors), inOrOut, cudaError)

CallJoin ==
    /\ calls < MaxCalls
    /\ \E geoShapes \in ShapeBatches, points \in InputVectors,
          indexVectorLength \in 0 .. MaxRows, cudaError \in BOOLEAN :
          GeoBatchIntersectsJoin(geoShapes, points, indexVectorLength,
                                 cudaError)

Next == CallFilter \/ CallJoin

Spec == Init /\ [][Next]_vars

(***************************************************************************)
(* SpecReuse: a caller that keeps calling with the direct geo point column *)
(* and the same buffers, so that later calls start from a compacted index  *)
(* vector and from the scratch bitset the earlier calls left behind.       *)
(***************************************************************************)
DirectColumn ==
    [Type |-> "VectorPartyInput", DataType |-> "GeoPoint", BasePtr |-> "column"]

ForeignColumn ==
    [Type |-> "ForeignColumnInput", DataType |-> "GeoPoint", BasePtr |-> "column"]

ReusePoints == { DirectColumn }

RunPoints == { DirectColumn, ForeignColumn }

ReuseFilter ==
    /\ calls < MaxReuseCalls
    /\ \E geoShapes \in ShapeBatches, points \in ReusePoints,
          indexVectorLength \in 0 .. MaxRows, inOrOut \in BOOLEAN :
          GeoBatchIntersects(geoShapes, points, indexVectorLength,
                             Len(recordIDVectors), inOrOut, FALSE)

ReuseJoin ==
    /\ calls < MaxReuseCalls
    /\ \E geoShapes \in ShapeBatches, points \in ReusePoints,
          indexVectorLength \in 0 .. MaxRows :
          GeoBatchIntersectsJoin(geoShapes, points, indexVectorLength,
                                 FALSE)

NextReuse == ReuseFilter \/ ReuseJoin

\* the join path takes no foreign RecordID vectors; the filter calls of this
\* specification run with none or with the most the switch supports
InitReuse == \E numVectors \in { 0, MaxForeignTables } : InitFor(numVectors)

SpecReuse == InitReuse /\ [][NextReuse]_vars

(***************************************************************************)
(* SpecSched: one call with its geo pass stepped work item by work item.   *)
(* thrust::for_each may evaluate the iterLength elements in any order, on  *)
(* the host one after the other, on the device in parallel with an atomic  *)
(* toggle per element; the pass that follows is issued once for_each has   *)
(* visited them all.                                                       *)
(***************************************************************************)
\* faulty variant: the following pass does not wait for the geo pass
ForEachComplete_NoWait(pend) == TRUE

\* for_each has visited every element of [geoIter, geoIter + iterLength)
ForEachComplete(pend) == pend = {}

\* the events bind adds around context.run for a foreign column
ForeignPrefix(points) ==
    IF points.Type = "ForeignColumnInput"
    THEN << "prepareForeignTableIterators" >> ELSE << >>

ForeignSuffix(points, threw) ==
    IF points.Type = "ForeignColumnInput" /\ ~threw
    THEN << "release" >> ELSE << >>

\* entry point up to the issue of the geo pass
SchedBegin(kind, geoShapes, points, indexVectorLength, inOrOut) ==
    /\ pc = "idle"
    /\ points.DataType = "GeoPoint"
    /\ points.Type = "ForeignColumnInput"
         \/ (points.Type = "VectorPartyInput" /\ ~IsEmptyColumn(points))
    /\ IterLength(geoShapes, indexVectorLength) <= MaxSchedItems
    /\ last' = [ kind |-> kind, geoShapes |-> geoShapes, points |-> points,
                 indexVectorLength |-> indexVectorLength,
                 numForeignTables |->
                    IF kind = "filter" THEN Len(recordIDVectors) ELSE 0,
                 inOrOut |-> inOrOut, pre |-> Mem, threw |-> FALSE,
                 what |-> "", res |-> 0,
                 trace |-> ForeignPrefix(points) \o << "for_each" >>,
                 cudaThrew |-> FALSE ]
    /\ pending' = 0 .. (IterLength(geoShapes, indexVectorLength) - 1)
    /\ pc' = "for_each"
    /\ UNCHANGED << indexVector, recordIDVectors, outputPredicate, dimOut,
                    resHandle, repeated, calls, measureVars,
                    predicateYield >>

\* one work item of the geo pass
ForEachItem(k) ==
    /\ pc = "for_each"
    /\ k \in pending
    /\ outputPredicate' =
         GeoBatchIntersectDeref(last.geoShapes, last.points, indexVector,
                                outputPredicate, k)
    /\ pending' = pending \ { k }
    /\ UNCHANGED << indexVector, recordIDVectors, dimOut, resHandle, last,
                    repeated, calls, pc, measureVars,
                    predicateYield >>

\* the pass after the geo pass, and the return through bind and the entry
\* point
SchedFinish ==
    /\ pc = "for_each"
    /\ ForEachComplete(pending)
    /\ \E r \in { IF last.kind = "filter"
                  THEN RemovePass(Mem, last.geoShapes, last.indexVectorLength,
                                  last.numForeignTables, last.inOrOut)
                  ELSE ProjectPass(Mem, last.geoShapes,
                                   last.indexVectorLength) } :
          /\ indexVector' = r.mem.indexVector
          /\ recordIDVectors' = r.mem.recordIDVectors
          /\ outputPredicate' = r.mem.outputPredicate
          /\ dimOut' = [DimValues |-> r.mem.DimValues,
                        DimNulls |-> r.mem.DimNulls]
          /\ resHandle' = Envelope(r, FALSE)
          /\ last' = [last EXCEPT
                        !.threw = r.threw, !.what = r.what, !.res = r.res,
                        !.trace = ForeignPrefix(last.points) \o r.trace
                                    \o ForeignSuffix(last.points, r.threw)]
    /\ pc' = "done"
    /\ calls' = calls + 1
    /\ UNCHANGED << repeated, pending, measureVars, predicateYield >>

SchedFilter ==
    \E geoShapes \in ShapeBatches, points \in RunPoints,
       indexVectorLength \in 0 .. MaxRows, inOrOut \in BOOLEAN :
       SchedBegin("filter", geoShapes, points, indexVectorLength, inOrOut)

SchedJoin ==
    \E geoShapes \in ShapeBatches, points \in RunPoints,
       indexVectorLength \in 0 .. MaxRows :
       SchedBegin("join", geoShapes, points, indexVectorLength, TRUE)

SchedItem == \E k \in pending : ForEachItem(k)

NextSched == SchedFilter \/ SchedJoin \/ SchedItem \/ SchedFinish

InitSched == \E numVectors \in { 0, 2, MaxForeignTables + 1 } : InitFor(numVectors)

SpecSched == InitSched /\ [][NextSched]_vars

(***************************************************************************)
(* OutputVectorBinder::transformMeasureOutput (measure_transform.cu).      *)
(***************************************************************************)
\* the tags of enum DataType
DataTypes ==
    { "Bool", "Int8", "Uint8", "Int16", "Uint16", "Int32", "Uint32",
      "Float32", "Int64", "UUID", "GeoPoint", "GeoShape", "Float64" }

\* the arities with an explicit instantiation
NInputs == { 1, 2 }

\* faulty variant: the switch has lost its last case label
SupportedMeasureType_NoFloat64(dataType) ==
    dataType \in { "Int32", "Uint32", "Float32", "Int64" }

\* the case labels of the switch on output.DataType
SupportedMeasureType(dataType) ==
    dataType \in { "Int32", "Uint32", "Float32", "Int64", "Float64" }

\* the element type output.Values is reinterpreted as under each case label
ValueType(dataType) ==
    CASE dataType = "Int32"   -> "int32_t"
      [] dataType = "Uint32"  -> "uint32_t"
      [] dataType = "Float32" -> "float_t"
      [] dataType = "Int64"   -> "int64_t"
      [] dataType = "Float64" -> "double_t"

\* transform: writes rows elements through the typed output iterator and
\* returns its count
transform(valueType, values, rows) ==
    [ res |-> rows,
      values |-> [pos \in DOMAIN values |->
                    IF pos < rows THEN valueType ELSE values[pos]] ]

transformMeasureOutput(output, rows) ==
    IF SupportedMeasureType(output.DataType)
    THEN LET t == transform(ValueType(output.DataType), output.Values, rows)
         IN [threw |-> FALSE, what |-> "", res |-> t.res,
             trace |-> << ValueType(output.DataType) >>, values |-> t.values]
    ELSE [threw |-> TRUE, what |-> "Unsupported data type for MeasureOutput",
          res |-> 0, trace |-> << >>, values |-> output.Values]

\* one call of the instantiation for nInput operands
TransformMeasureOutput(nInput, dataType, rows) ==
    \E r \in { transformMeasureOutput(
                 [DataType |-> dataType, Values |-> measureOut], rows) } :
       /\ measureOut' = r.values
       /\ measureLast' = [ NInput |-> nInput, DataType |-> dataType,
                           rows |-> rows, pre |-> measureOut,
                           threw |-> r.threw, what |-> r.what, res |-> r.res,
                           trace |-> r.trace ]
       /\ calls' = calls + 1
       /\ UNCHANGED << indexVector, recordIDVectors, outputPredicate, dimOut,
                       resHandle, last, repeated, schedVars,
                       predicateYield >>

CallMeasure ==
    /\ calls < MaxMeasureCalls
    /\ \E nInput \in NInputs, dataType \in DataTypes, rows \in 0 .. MaxRows :
          TransformMeasureOutput(nInput, dataType, rows)

NextMeasure == CallMeasure

SpecMeasure == InitFor(0) /\ [][NextMeasure]_vars

(***************************************************************************)
(* Vocabulary of the properties.  Everything below is stated over the      *)
(* buffers now, the buffers before the last call (last.pre) and the        *)
(* arguments of the last call.                                             *)
(***************************************************************************)
\* the last call was a filter call whose compaction pass ran
FilterCompacted ==
    /\ last.kind = "filter"
    /\ ~last.threw
    /\ \E i \in DOMAIN last.trace : last.trace[i] = "remove_if"

\* the last call was a join call whose projection pass ran
JoinProjected ==
    /\ last.kind = "join"
    /\ ~last.threw
    /\ \E i \in DOMAIN last.trace : last.trace[i] = "transform_if"

\* the predicate value of a row as the pass after the geo pass reads it
PredicateOf(pos) ==
    GeoPredicateValue(outputPredicate, last.geoShapes.TotalWords, pos)

\* positions of the index vector that the polarity keeps
Survivors ==
    { pos \in 0 .. (last.indexVectorLength - 1) :
        last.inOrOut = (PredicateOf(pos) >= 0) }

\* the j-th survivor in original order, j counted from 0
NthSurvivor(j) ==
    CHOOSE pos \in Survivors : Cardinality({ q \in Survivors : q < pos }) = j

\* the passes of the call that are device work on the predicate or the outputs
DeviceWork ==
    SelectSeq(last.trace,
              LAMBDA e : e \in { "for_each", "remove_if", "transform_if" })

VectorsUnchanged ==
    /\ indexVector = last.pre.indexVector
    /\ recordIDVectors = last.pre.recordIDVectors

DimOutUnchanged ==
    /\ dimOut.DimValues = last.pre.DimValues
    /\ dimOut.DimNulls = last.pre.DimNulls

\* bind reaches context.run: a geo point input that is a non-empty direct
\* column or a foreign column
ReachesRun(points) ==
    /\ points.DataType = "GeoPoint"
    /\ \/ points.Type = "VectorPartyInput" /\ points.BasePtr # "null"
       \/ points.Type = "ForeignColumnInput"

(***************************************************************************)
(* C1  Filter compaction: after a filter call whose compaction ran, the    *)
(* returned row count n is the number of rows the polarity keeps,          *)
(* 0 <= n <= indexVectorLength, and the first n entries of indexVector are *)
(* the kept entries of the index vector before the call, in their original *)
(* relative order.                                                         *)
(***************************************************************************)
C1_FilterCompaction ==
    FilterCompacted =>
      /\ last.res = Cardinality(Survivors)
      /\ 0 <= last.res /\ last.res <= last.indexVectorLength
      /\ \A j \in 0 .. (last.res - 1) :
            indexVector[j] = last.pre.indexVector[NthSurvivor(j)]

\* three rows, rows 0 and 2 inside a shape, row 1 outside, inOrOut = true
C1_Witness ==
    /\ FilterCompacted
    /\ last.inOrOut
    /\ last.indexVectorLength = 3
    /\ Survivors = { 0, 2 }
    /\ last.res = 2
    /\ indexVector[1] = last.pre.indexVector[2]
    /\ last.pre.indexVector[1] # last.pre.indexVector[2]

(***************************************************************************)
(* C2  Lockstep: after a filter call with n >= 1 foreign tables whose      *)
(* compaction ran, every foreign RecordID vector holds, at each position   *)
(* below the returned row count, the RecordID that stood at the original   *)
(* position of the index now at that position of indexVector.              *)
(***************************************************************************)
C2_Lockstep ==
    (FilterCompacted /\ last.numForeignTables >= 1) =>
      \A k \in 1 .. last.numForeignTables :
        \A j \in 0 .. (last.res - 1) :
          /\ recordIDVectors[k][j] = last.pre.recordIDVectors[k][NthSurvivor(j)]
          /\ indexVector[j] = last.pre.indexVector[NthSurvivor(j)]

C2_Witness ==
    /\ FilterCompacted
    /\ last.numForeignTables = MaxForeignTables
    /\ last.indexVectorLength = 3
    /\ last.res = 2
    /\ Survivors = { 0, 2 }
    /\ \A k \in 1 .. MaxForeignTables :
          /\ recordIDVectors[k][1] = last.pre.recordIDVectors[k][2]
          /\ last.pre.recordIDVectors[k][1] # last.pre.recordIDVectors[k][2]

(***************************************************************************)
(* C3  Arity bound.  As claimed: every filter call with more than 8        *)
(* foreign tables returns the arity error, leaves the index vector and the *)
(* RecordID vectors alone and runs no compaction.                          *)
(***************************************************************************)
C3_ArityBound_Original ==
    (last.kind = "filter" /\ last.numForeignTables > MaxForeignTables) =>
      /\ resHandle.pStrErr = "only support up to 8 foreign tables"
      /\ VectorsUnchanged
      /\ \A i \in DOMAIN last.trace : last.trace[i] # "remove_if"

(***************************************************************************)
(* C3 (amended)  A filter call with more than 8 foreign tables whose input *)
(* passes the checks of bind (a geo point column, direct with a non-null   *)
(* BasePtr or foreign) returns the arity error; every filter call with     *)
(* more than 8 foreign tables leaves the index vector and the RecordID     *)
(* vectors alone and runs no compaction.                                   *)
(***************************************************************************)
C3_ArityBound ==
    (last.kind = "filter" /\ last.numForeignTables > MaxForeignTables) =>
      /\ ReachesRun(last.points) =>
            /\ resHandle.pStrErr = "only support up to 8 foreign tables"
            /\ resHandle.res = 0
      /\ VectorsUnchanged
      /\ \A i \in DOMAIN last.trace : last.trace[i] # "remove_if"

C3_Witness ==
    /\ last.kind = "filter"
    /\ last.numForeignTables = MaxForeignTables + 1
    /\ last.points.Type = "VectorPartyInput"
    /\ ReachesRun(last.points)
    /\ last.indexVectorLength = 3
    /\ resHandle.pStrErr = "only support up to 8 foreign tables"
    /\ outputPredicate # last.pre.outputPredicate
    /\ VectorsUnchanged

(***************************************************************************)
(* C4  Envelope exclusivity, as claimed: whenever the envelope carries an  *)
(* error message, its payload res carries no row count.                    *)
(***************************************************************************)
C4_EnvelopeExclusive ==
    resHandle.pStrErr # "nullptr" => resHandle.res = 0

C6_JoinIdempotent ==
    (repeated /\ last.kind = "join") => DimOutUnchanged

(***************************************************************************)
(* C7  Empty-column short-circuit: a call on a direct geo point column     *)
(* with a null BasePtr has bind return 0 without an error and without any  *)
(* pass; the scratch bitset, the index vector, the RecordID vectors and    *)
(* the dimension output are as before the call, whatever the length and    *)
(* the number of foreign tables.                                           *)
(***************************************************************************)
C7_EmptyColumn ==
    ( /\ last.kind \in { "filter", "join" }
      /\ last.points.Type = "VectorPartyInput"
      /\ last.points.DataType = "GeoPoint"
      /\ last.points.BasePtr = "null" ) =>
      /\ ~last.threw
      /\ last.res = 0
      /\ resHandle.res = 0
      /\ ~last.cudaThrew => resHandle.pStrErr = "nullptr"
      /\ last.trace = << >>
      /\ outputPredicate = last.pre.outputPredicate
      /\ VectorsUnchanged
      /\ DimOutUnchanged

C7_Witness ==
    /\ last.kind = "filter"
    /\ last.points.Type = "VectorPartyInput"
    /\ last.points.DataType = "GeoPoint"
    /\ last.points.BasePtr = "null"
    /\ last.numForeignTables > MaxForeignTables
    /\ last.indexVectorLength = 3
    /\ resHandle = [res |-> 0, pStrErr |-> "nullptr"]

(***************************************************************************)
(* C8  Errors precede device work, as claimed: a call in which bind raised *)
(* an error has issued no device pass.                                     *)
(***************************************************************************)
C8_ErrorsFirst_Original ==
    last.threw => DeviceWork = << >>

(***************************************************************************)
(* C8 (amended)  A call that ends in a data type or input representation   *)
(* error has issued no pass at all and changed no buffer.  A call that     *)
(* ends in the arity error has issued the geo for-each pass and nothing    *)
(* after it: the scratch bitset may be toggled, the index vector, the      *)
(* RecordID vectors and the dimension output are unchanged.  A call with   *)
(* no error from bind has issued all its passes or, for an empty column,   *)
(* none.                                                                   *)
(***************************************************************************)
C8_ErrorsFirst ==
    /\ (last.threw /\ last.what # "only support up to 8 foreign tables") =>
          /\ last.trace = << >>
          /\ outputPredicate = last.pre.outputPredicate
          /\ VectorsUnchanged
          /\ DimOutUnchanged
    /\ (last.threw /\ last.what = "only support up to 8 foreign tables") =>
          /\ DeviceWork = << "for_each" >>
          /\ VectorsUnchanged
          /\ DimOutUnchanged
    /\ (last.kind # "none" /\ ~last.threw) =>
          DeviceWork \in { << >>, << "for_each", "remove_if" >>,
                           << "for_each", "transform_if" >> }

C8_Witness ==
    /\ last.threw
    /\ last.what = "only support up to 8 foreign tables"
    /\ DeviceWork = << "for_each" >>
    /\ outputPredicate # last.pre.outputPredicate
    /\ VectorsUnchanged

(***************************************************************************)
(* C9  Output type coverage: for both instantiated arities, a call of      *)
(* transformMeasureOutput with data type Int32, Uint32, Float32, Int64 or  *)
(* Float64 invokes transform once with the output iterator of the matching *)
(* element type and returns its result; with any other tag it fails with   *)
(* the invalid-argument error, transform is not invoked and the output     *)
(* buffer is as before.                                                    *)
(***************************************************************************)
C9_TypeCoverage ==
    measureLast.NInput \in { 1, 2 } =>
      LET dt == measureLast.DataType
          expected ==
            IF dt = "Int32" THEN "int32_t"
            ELSE IF dt = "Uint32" THEN "uint32_t"
            ELSE IF dt = "Float32" THEN "float_t"
            ELSE IF dt = "Int64" THEN "int64_t"
            ELSE IF dt = "Float64" THEN "double_t"
            ELSE "unsupported"
      IN IF expected # "unsupported"
         THEN /\ ~measureLast.threw
              /\ measureLast.trace = << expected >>
              /\ measureLast.res = measureLast.rows
              /\ \A pos \in Positions :
                    pos < measureLast.rows => measureOut[pos] = expected
         ELSE /\ measureLast.threw
              /\ measureLast.what = "Unsupported data type for MeasureOutput"
              /\ measureLast.trace = << >>
              /\ measureOut = measureLast.pre

\* the two-operand instantiation writes doubles over a buffer that an
\* earlier call wrote as int32
C9_Witness ==
    /\ measureLast.NInput = 2
    /\ measureLast.DataType = "Float64"
    /\ measureLast.rows = 2
    /\ measureLast.res = 2
    /\ measureLast.pre[0] = "int32_t"
    /\ measureOut[0] = "double_t"

(***************************************************************************)
(* C10  Order-insensitivity of the geo pass: whatever the order in which   *)
(* the indexVectorLength * TotalNumPoints work items were evaluated, when  *)
(* the call has returned every work item had been evaluated before the     *)
(* pass after the geo pass ran, every predicate bit of a visited row       *)
(* differs from its value before the call exactly when the row crosses an  *)
(* odd number of edges of that shape, and the buffers, the row count and   *)
(* the passes are those of the evaluation in host order.                   *)
(***************************************************************************)
CrossedEdges(pos, shape) ==
    { pointIndex \in 0 .. (last.geoShapes.TotalNumPoints - 1) :
        /\ pos < last.indexVectorLength
        /\ last.geoShapes.ShapeIndexs[pointIndex + 1] = shape
        /\ ItemToggles(last.geoShapes,
                       InputPoint(last.points, last.pre.indexVector, pos),
                       pointIndex) }

C10_OrderInsensitive ==
    pc = "done" =>
      /\ pending = {}
      /\ \A pos \in Positions :
           \A shape \in 0 .. (last.geoShapes.TotalWords * WordBits - 1) :
             LET word == pos * last.geoShapes.TotalWords + (shape \div WordBits)
             IN BitAt(outputPredicate[word], shape % WordBits)
                  = (BitAt(last.pre.outputPredicate[word], shape % WordBits)
                       + Cardinality(CrossedEdges(pos, shape))) % 2
      /\ LET host == bind(last.kind, last.pre, last.geoShapes, last.points,
                          last.indexVectorLength, last.numForeignTables,
                          last.inOrOut)
         IN /\ Mem = host.mem
            /\ last.res = host.res
            /\ last.threw = host.threw
            /\ last.trace = host.trace

\* a filter call over two rows: row 0 crosses one edge of the square and is
\* kept, row 1 crosses two edges (its bit is toggled twice) and is removed
C10_Witness ==
    /\ pc = "done"
    /\ last.kind = "filter"
    /\ last.inOrOut
    /\ last.indexVectorLength = 2
    /\ Cardinality(CrossedEdges(0, 0)) = 1
    /\ Cardinality(CrossedEdges(1, 0)) = 2
    /\ outputPredicate[0] = { 0 }
    /\ outputPredicate[1] = ZeroWord
    /\ last.res = 1

\* the calls of the last entry-point call that obtained, and that released,
\* the foreign table iterator array
IteratorsObtained ==
    SelectSeq(last.trace, LAMBDA e : e = "prepareForeignTableIterators")

IteratorsReleased ==
    SelectSeq(last.trace, LAMBDA e : e = "release")

(***************************************************************************)
(* C11  Foreign-iterator release pairing, as claimed: when an entry-point  *)
(* call has returned, the iterator array bind obtained from                *)
(* prepareForeignTableIterators for a foreign geo point column has been    *)
(* released exactly once, also when context.run failed and the call ended  *)
(* with an error envelope.                                                 *)
(***************************************************************************)
C11_ReleasePairing ==
    Len(IteratorsReleased) = Len(IteratorsObtained)

=============================================================================
